---- MODULE Spec2Model ----
(***************************************************************************)
(* The in-memory proxy database of rama (src/proxy/proxydb/mod.rs):        *)
(* MemoryProxyDB, its construction from rows, and the two read operations  *)
(* get_proxy and get_proxy_if over a (RequestContext, ProxyFilter) pair,   *)
(* alone (Spec) and under callers that share the database (SpecReaders);   *)
(* ProxyCredentials with its Display and FromStr (SpecCodec); and the      *)
(* RetryBody of src/http/layer/retry/body.rs (SpecRetry).                  *)
(***************************************************************************)
EXTENDS Integers, Sequences, FiniteSets, TLC

(***************************************************************************)
(* Bounds of the model.                                                    *)
(***************************************************************************)
\* the largest number of rows handed to the constructor
MaxProxies == 2
\* the largest number of ProxyFilter fields, besides id, set in one call
MaxFilterFields == 1
\* the largest number of classifying attributes (pool_id, country, city,
\* carrier, datacenter, residential, mobile) of one row that are a concrete
\* string or a set flag
MaxRowAttrs == 1

(***************************************************************************)
(* Values.                                                                 *)
(***************************************************************************)
\* Option<T>: None is the empty set and Some(v) the set {v}, so that
\* "if let Some(v) = o" reads \A v \in o (or \E v \in o)
None == {}
Some(v) == {v}
Opt(S) == {None} \cup {Some(v) : v \in S}
unwrap(o) == CHOOSE v \in o : TRUE

\* the wildcard StringFilter, a store-side "any value accepted"
Wildcard == "*"
\* the concrete strings of the model
Strings == {"a", "b"}
\* StringFilter values: a concrete string or the wildcard
StringFilter == Strings \cup {Wildcard}

\* http::Version, as far as the selection reads it
Version == {"HTTP_11", "HTTP_2", "HTTP_3"}

\* proxy ids: those rows may carry, and one more that a filter may ask for
Ids == 1..MaxProxies
FilterIds == 1..(MaxProxies + 1)

\* the attributes of a Proxy that a ProxyFilter classifies on
CatFields == {"pool_id", "country", "city", "carrier"}
FlagFields == {"datacenter", "residential", "mobile"}

\* internal::Proxy without its id (credentials are opaque to the selection).
\* A row carries a StringFilter, a concrete string or the wildcard, for each
\* categorical attribute; rows that leave one out are not modelled (what the
\* store does with them is decided in internal.rs).
ProxyAttrs ==
    [pool_id : StringFilter, country : StringFilter,
     city : StringFilter, carrier : StringFilter,
     datacenter : BOOLEAN, residential : BOOLEAN, mobile : BOOLEAN,
     tcp : BOOLEAN, udp : BOOLEAN, socks5 : BOOLEAN]

\* the number of classifying attributes by which a row restricts the
\* filters it matches: a concrete string, or a flag set
SetAttrs(a) ==
    Cardinality({k \in CatFields : a[k] # Wildcard})
        + Cardinality({k \in FlagFields : a[k]})

\* the rows of a one-row batch: at most MaxRowAttrs classifying attributes
\* concrete or set, every combination of tcp, udp and socks5
ProxyShapes == {a \in ProxyAttrs : SetAttrs(a) <= MaxRowAttrs}

\* the rows of a batch of several rows, which add to one row the lookup among
\* ids and the draw among candidates: a country or the mobile flag at most,
\* over tcp alone or udp with socks5
PoolShapes ==
    {a \in ProxyShapes :
        /\ a.pool_id = Wildcard /\ a.city = Wildcard /\ a.carrier = Wildcard
        /\ ~a.datacenter /\ ~a.residential
        /\ SetAttrs(a) <= 1
        /\ a.udp = a.socks5 /\ a.tcp = ~a.udp}

\* internal::Proxy
row(i, a) == [id |-> i] @@ a
Proxy == {row(i, a) : i \in Ids, a \in ProxyShapes}

\* RequestContext, as far as the selection reads it
RequestContext == [http_version : Version]

\* the number of fields besides id that a filter sets
SetFields(f) == Cardinality({k \in CatFields \cup FlagFields : f[k] # None})

\* ProxyFilter: every field optional
ProxyFilter ==
    {f \in [id : Opt(FilterIds),
            pool_id : Opt(Strings), country : Opt(Strings),
            city : Opt(Strings), carrier : Opt(Strings),
            datacenter : Opt(BOOLEAN), residential : Opt(BOOLEAN),
            mobile : Opt(BOOLEAN)] : SetFields(f) <= MaxFilterFields}

\* the predicates handed to get_proxy_if: each accepts the proxies whose id
\* is in a set (a predicate reads nothing but the proxy it is given): one
\* that accepts every row, one that rejects every row, one that accepts the
\* row with id 1 only
Predicates == {Ids, {}, {1}}
predicate(pred, proxy) == proxy.id \in pred

(***************************************************************************)
(* StringFilter and the store behind MemoryProxyDB (internal::ProxyDB).    *)
(***************************************************************************)
\* a stored value against a queried one: the stored wildcard matches every
\* query value, a stored concrete value only the identical one
matches(stored, query_value) == stored = Wildcard \/ stored = query_value

\* Proxy::is_match: the row against every field of the filter besides id and
\* against the protocol requirement of the context
is_match(proxy, ctx, filter) ==
    /\ IF ctx.http_version = "HTTP_3"
       THEN proxy.udp /\ proxy.socks5
       ELSE proxy.tcp
    /\ \A k \in CatFields : \A v \in filter[k] : matches(proxy[k], v)
    /\ \A k \in FlagFields : \A v \in filter[k] : proxy[k] = v

\* ProxyDB::query: a query with no constraint
EmptyQuery ==
    [pool_id |-> None, country |-> None, city |-> None, carrier |-> None,
     datacenter |-> None, residential |-> None, mobile |-> None,
     tcp |-> None, udp |-> None, socks5 |-> None]

QueryCat == {"pool_id", "country", "city", "carrier"}
QueryFlag == {"datacenter", "residential", "mobile", "tcp", "udp", "socks5"}

\* the rows of the store meeting every constraint of a query
candidates(db, query) ==
    {p \in db :
        /\ \A k \in QueryCat : \A v \in query[k] : matches(p[k], v)
        /\ \A k \in QueryFlag : \A v \in query[k] : p[k] = v}

\* ProxyDBQuery::execute: Some(the rows meeting every constraint), None when
\* there is none
execute(db, query) ==
    LET found == candidates(db, query)
    IN  IF found = {} THEN None ELSE Some(found)

\* ProxyDBQueryResult::filter: Some(the rows the predicate accepts), None
\* when there is none
filter_result(result, pred) ==
    LET kept == {p \in result : predicate(pred, p)}
    IN  IF kept = {} THEN None ELSE Some(kept)

\* ProxyDBQueryResult::any: a random row of the result; the set of the rows
\* the draw can give
any(result) == result

\* ProxyDB::get_by_id
get_by_id(db, id) == {p \in db : p.id = id}

\* internal::ProxyDB::from_rows / from_iter: the store of the rows, or
\* DuplicateKey carrying the rows when two of them share an id
from_rows(proxies) ==
    IF \E i, j \in DOMAIN proxies : i # j /\ proxies[i].id = proxies[j].id
    THEN [ok |-> FALSE, kind |-> "DuplicateKey", input |-> proxies]
    ELSE [ok |-> TRUE, db |-> {proxies[i] : i \in DOMAIN proxies}]

(***************************************************************************)
(* MemoryProxyDB.                                                          *)
(***************************************************************************)
\* MemoryProxyDBInsertError::duplicate_key
duplicate_key(proxies) == [kind |-> "DuplicateKey", proxies |-> proxies]

\* MemoryProxyDBQueryError::not_found, ::mismatch, and a found proxy
not_found == [kind |-> "NotFound", proxy |-> None]
mismatch == [kind |-> "Mismatch", proxy |-> None]
Ok(proxy) == [kind |-> "Ok", proxy |-> Some(proxy)]

\* try_from_rows keeping the first row seen of each id instead of failing
try_from_rows_first_seen(proxies) ==
    [data |-> Some({proxies[i] : i \in {i \in DOMAIN proxies :
                       \A j \in 1..(i - 1) : proxies[j].id # proxies[i].id}}),
     err |-> None]

\* MemoryProxyDB::try_from_rows: Ok(MemoryProxyDB) or the insert error
try_from_rows(proxies) ==
    LET r == from_rows(proxies)
    IN  IF r.ok
        THEN [data |-> Some(r.db), err |-> None]
        ELSE [data |-> None, err |-> Some(duplicate_key(r.input))]

\* MemoryProxyDB::try_from_iter
try_from_iter(proxies) ==
    LET r == from_rows(proxies)
    IN  IF r.ok
        THEN [data |-> Some(r.db), err |-> None]
        ELSE [data |-> None, err |-> Some(duplicate_key(r.input))]

\* MemoryProxyDB::len
len(db) == Cardinality(db)

\* query_from_filter asking an HTTP/3 proxy for udp only
query_from_filter_h3_udp_only(ctx, filter) ==
    LET query == [EmptyQuery EXCEPT !.pool_id = filter.pool_id,
                                    !.country = filter.country,
                                    !.city = filter.city,
                                    !.datacenter = filter.datacenter,
                                    !.residential = filter.residential,
                                    !.mobile = filter.mobile]
    IN  IF ctx.http_version = "HTTP_3"
        THEN [query EXCEPT !.udp = Some(TRUE)]
        ELSE [query EXCEPT !.tcp = Some(TRUE)]

\* query_from_filter handing the residential flag to the mobile constraint
query_from_filter_flag_slip(ctx, filter) ==
    LET query == [EmptyQuery EXCEPT !.pool_id = filter.pool_id,
                                    !.country = filter.country,
                                    !.city = filter.city,
                                    !.datacenter = filter.datacenter,
                                    !.residential = filter.residential,
                                    !.mobile = filter.residential]
    IN  IF ctx.http_version = "HTTP_3"
        THEN [query EXCEPT !.udp = Some(TRUE), !.socks5 = Some(TRUE)]
        ELSE [query EXCEPT !.tcp = Some(TRUE)]

\* MemoryProxyDB::query_from_filter
query_from_filter(ctx, filter) ==
    LET query == [EmptyQuery EXCEPT !.pool_id = filter.pool_id,
                                    !.country = filter.country,
                                    !.city = filter.city,
                                    !.datacenter = filter.datacenter,
                                    !.residential = filter.residential,
                                    !.mobile = filter.mobile]
    IN  IF ctx.http_version = "HTTP_3"
        THEN [query EXCEPT !.udp = Some(TRUE), !.socks5 = Some(TRUE)]
        ELSE [query EXCEPT !.tcp = Some(TRUE)]

\* get_proxy returning the row of the id without validating it
get_proxy_unvalidated(db, ctx, filter) ==
    IF filter.id # None
    THEN LET found == get_by_id(db, unwrap(filter.id))
         IN  IF found = None THEN {not_found} ELSE {Ok(unwrap(found))}
    ELSE LET result == execute(db, query_from_filter(ctx, filter))
         IN  IF result = None
             THEN {not_found}
             ELSE {Ok(proxy) : proxy \in any(unwrap(result))}

\* get_proxy reporting a row that fails the validation as not found
get_proxy_mismatch_as_not_found(db, ctx, filter) ==
    IF filter.id # None
    THEN LET found == get_by_id(db, unwrap(filter.id))
         IN  IF found = None
             THEN {not_found}
             ELSE IF is_match(unwrap(found), ctx, filter)
                  THEN {Ok(unwrap(found))}
                  ELSE {not_found}
    ELSE LET result == execute(db, query_from_filter(ctx, filter))
         IN  IF result = None
             THEN {not_found}
             ELSE {Ok(proxy) : proxy \in any(unwrap(result))}

\* MemoryProxyDB::get_proxy: the set of the results the call can give (one
\* result, but for the random draw among the rows of a query)
get_proxy(db, ctx, filter) ==
    IF filter.id # None
    THEN LET found == get_by_id(db, unwrap(filter.id))
         IN  IF found = None
             THEN {not_found}
             ELSE IF is_match(unwrap(found), ctx, filter)
                  THEN {Ok(unwrap(found))}
                  ELSE {mismatch}
    ELSE LET query == query_from_filter(ctx, filter)
             result == execute(db, query)
         IN  IF result = None
             THEN {not_found}
             ELSE {Ok(proxy) : proxy \in any(unwrap(result))}

\* get_proxy_if validating before it looks at whether the id is stored: an
\* id that is not stored is reported as a mismatch
get_proxy_if_absent_mismatch(db, ctx, filter, pred) ==
    IF filter.id # None
    THEN LET found == get_by_id(db, unwrap(filter.id))
         IN  IF found # None /\ is_match(unwrap(found), ctx, filter)
                /\ predicate(pred, unwrap(found))
             THEN {Ok(unwrap(found))}
             ELSE {mismatch}
    ELSE LET executed == execute(db, query_from_filter(ctx, filter))
             result == IF executed = None
                       THEN None
                       ELSE filter_result(unwrap(executed), pred)
         IN  IF result = None
             THEN {not_found}
             ELSE {Ok(proxy) : proxy \in any(unwrap(result))}

\* get_proxy_if reporting a row its predicate rejects as not found
get_proxy_if_rejected_not_found(db, ctx, filter, pred) ==
    IF filter.id # None
    THEN LET found == get_by_id(db, unwrap(filter.id))
         IN  IF found = None
             THEN {not_found}
             ELSE IF ~is_match(unwrap(found), ctx, filter)
                  THEN {mismatch}
                  ELSE IF predicate(pred, unwrap(found))
                       THEN {Ok(unwrap(found))}
                       ELSE {not_found}
    ELSE LET executed == execute(db, query_from_filter(ctx, filter))
             result == IF executed = None
                       THEN None
                       ELSE filter_result(unwrap(executed), pred)
         IN  IF result = None
             THEN {not_found}
             ELSE {Ok(proxy) : proxy \in any(unwrap(result))}

\* MemoryProxyDB::get_proxy_if
get_proxy_if(db, ctx, filter, pred) ==
    IF filter.id # None
    THEN LET found == get_by_id(db, unwrap(filter.id))
         IN  IF found = None
             THEN {not_found}
             ELSE IF is_match(unwrap(found), ctx, filter)
                     /\ predicate(pred, unwrap(found))
                  THEN {Ok(unwrap(found))}
                  ELSE {mismatch}
    ELSE LET query == query_from_filter(ctx, filter)
             executed == execute(db, query)
             result == IF executed = None
                       THEN None
                       ELSE filter_result(unwrap(executed), pred)
         IN  IF result = None
             THEN {not_found}
             ELSE {Ok(proxy) : proxy \in any(unwrap(result))}

(***************************************************************************)
(* The state: the rows handed to the constructor, the database built from  *)
(* them (or the insert error), and the call in flight with its result;     *)
(* the callers that share one database; a ProxyCredentials value on its    *)
(* way through Display and FromStr; a RetryBody and what was taken of it.  *)
(***************************************************************************)
VARIABLES
    rows,        \* the Vec<Proxy> the constructor is given (moved by it)
    data,        \* MemoryProxyDB.data: Some(the set of rows) once built
    insert_err,  \* Some(MemoryProxyDBInsertError) when construction failed
    pc,          \* "new", "failed", "idle" (built, no call) or "done"
    call,        \* the arguments of the last call
    result,      \* Some(its result)
    readers,     \* per concurrent caller: its call and where it stands
    codec,       \* the credentials, their string, and what parsing gave
    retry        \* the RetryBody: its bytes and what each access returned

vars == <<rows, data, insert_err, pc, call, result, readers, codec, retry>>

\* the batches of rows the constructor may be given
\* (ids are opaque keys: a row carries an id no larger than its position, so
\* that batches that differ by a renaming of ids are given once)
Batches ==
    {<<>>}
    \cup {<<row(1, a)>> : a \in ProxyShapes}
    \cup {b \in UNION {[1..n -> {row(i, a) : i \in Ids, a \in PoolShapes}] :
                          n \in 2..MaxProxies} :
             \A i \in DOMAIN b : b[i].id <= i}

NoCall == [op |-> "none"]

\* the callers that hold a reference to one MemoryProxyDB; none has called
Callers == {"c1", "c2"}
NoReaders == [c \in Callers |-> [pc |-> "idle", call |-> NoCall, result |-> None]]
\* no credentials at hand, and no RetryBody
NoCodec == [pc |-> "none"]
NoRetry == [pc |-> "none"]

Init ==
    /\ rows \in Batches
    /\ data = None
    /\ insert_err = None
    /\ pc = "new"
    /\ call = NoCall
    /\ result = None
    /\ readers = NoReaders
    /\ codec = NoCodec
    /\ retry = NoRetry

Construct(r) ==
    /\ rows' = <<>>
    /\ data' = r.data
    /\ insert_err' = r.err
    /\ pc' = IF r.err = None THEN "idle" ELSE "failed"
    /\ UNCHANGED <<call, result, readers, codec, retry>>

TryFromRows ==
    /\ pc = "new"
    /\ Construct(try_from_rows(rows))

TryFromIter ==
    /\ pc = "new"
    /\ Construct(try_from_iter(rows))

\* the results a call on a store may give
Outcomes(db) == {not_found, mismatch} \cup {Ok(proxy) : proxy \in db}

\* get_proxy(ctx, filter) returns r
GetProxyCall(ctx, filter, r) ==
    /\ pc = "idle"
    /\ r \in get_proxy(unwrap(data), ctx, filter)
    /\ call' = [op |-> "get_proxy", ctx |-> ctx, filter |-> filter,
                pred |-> Ids]
    /\ result' = Some(r)
    /\ pc' = "done"
    /\ UNCHANGED <<rows, data, insert_err, readers, codec, retry>>

\* get_proxy_if(ctx, filter, pred) returns r
GetProxyIfCall(ctx, filter, pred, r) ==
    /\ pc = "idle"
    /\ r \in get_proxy_if(unwrap(data), ctx, filter, pred)
    /\ call' = [op |-> "get_proxy_if", ctx |-> ctx, filter |-> filter,
                pred |-> pred]
    /\ result' = Some(r)
    /\ pc' = "done"
    /\ UNCHANGED <<rows, data, insert_err, readers, codec, retry>>

GetProxy ==
    /\ pc = "idle"
    /\ \E ctx \in RequestContext, filter \in ProxyFilter :
         \E r \in Outcomes(unwrap(data)) : GetProxyCall(ctx, filter, r)

GetProxyIf ==
    /\ pc = "idle"
    /\ \E ctx \in RequestContext, filter \in ProxyFilter, pred \in Predicates :
         \E r \in Outcomes(unwrap(data)) : GetProxyIfCall(ctx, filter, pred, r)

\* the caller takes the result; the database is ready for the next call
Return ==
    /\ pc = "done"
    /\ pc' = "idle"
    /\ call' = NoCall
    /\ result' = None
    /\ UNCHANGED <<rows, data, insert_err, readers, codec, retry>>

Next == TryFromRows \/ TryFromIter \/ GetProxy \/ GetProxyIf \/ Return

Spec == Init /\ [][Next]_vars

(***************************************************************************)
(* The words of the claims.                                                *)
(***************************************************************************)
\* a call of op has returned
Returned(op) == pc = "done" /\ call.op = op
\* a call of get_proxy or get_proxy_if has returned
ReturnedAny == pc = "done" /\ call.op \in {"get_proxy", "get_proxy_if"}
\* the call took the identity path (filter.id set) or the query path
IdentityPath == call.filter.id # None
QueryPath == call.filter.id = None
\* the rows of the store
Stored == unwrap(data)
\* the stored rows with the id the filter names (one at most)
Named == {R \in Stored : R.id = unwrap(call.filter.id)}
\* the result of the call, and the proxy it returned
TheResult == unwrap(result)
ReturnedProxy == unwrap(TheResult.proxy)

\* the value v of the filter's field k matches the row's attribute: a flag is
\* equal, a categorical attribute is the wildcard or the identical string
Fits(R, k, v) ==
    IF k \in FlagFields THEN R[k] = v ELSE R[k] = Wildcard \/ R[k] = v
\* the set fields of a filter that do not match the row
Misfits(R, filter) ==
    {k \in CatFields \cup FlagFields : \E v \in filter[k] : ~Fits(R, k, v)}
\* the protocol requirement of a context: HTTP/3 needs udp and socks5, any
\* other version needs tcp
ProtocolMet(R, ctx) ==
    IF ctx.http_version = "HTTP_3" THEN R.udp /\ R.socks5 ELSE R.tcp

(***************************************************************************)
(* C1: identity path, present id. When get_proxy is called with filter.id  *)
(* naming a stored row R: if every other set field of the filter matches R *)
(* and the protocol requirement of the context is met, the result is R; if *)
(* exactly one set field does not match R (the rest and the protocol       *)
(* requirement as before), the result is Mismatch.                         *)
(***************************************************************************)
C1_IdentityPresent ==
    (Returned("get_proxy") /\ IdentityPath) =>
        \A R \in Named :
            /\ (Misfits(R, call.filter) = {} /\ ProtocolMet(R, call.ctx))
                  => TheResult = Ok(R)
            /\ (Cardinality(Misfits(R, call.filter)) = 1
                    /\ ProtocolMet(R, call.ctx))
                  => TheResult = mismatch

\* get_proxy found the row of an id, in a store of two rows, under a filter
\* naming the row's country
C1_Witness ==
    /\ Returned("get_proxy") /\ IdentityPath
    /\ Cardinality(Stored) = 2
    /\ call.filter.country = Some("a")
    /\ TheResult.kind = "Ok"
    /\ ReturnedProxy.id = unwrap(call.filter.id)
    /\ ReturnedProxy.country = "a"

(***************************************************************************)
(* C2: identity path, absent id. When get_proxy or get_proxy_if is called  *)
(* with filter.id set to an id no stored row has, the result is NotFound,  *)
(* whatever the other fields, the context and the predicate.               *)
(***************************************************************************)
C2_IdentityAbsent ==
    (ReturnedAny /\ IdentityPath /\ Named = {}) => TheResult = not_found

\* get_proxy_if was asked for an id the store lacks, with a field set that
\* no row matches, under a predicate that accepts every row
C2_Witness ==
    /\ Returned("get_proxy_if") /\ IdentityPath /\ Named = {}
    /\ Stored # {}
    /\ call.pred = Ids
    /\ call.filter.mobile = Some(TRUE) /\ \A R \in Stored : ~R.mobile
    /\ TheResult = not_found

(***************************************************************************)
(* C3: identity path, protocol requirement. When filter.id names a stored  *)
(* row, get_proxy returns Mismatch under HTTP/3 unless the row has udp and *)
(* socks5 (both), and under any other version unless the row has tcp.      *)
(***************************************************************************)
C3_IdentityProtocol ==
    (Returned("get_proxy") /\ IdentityPath) =>
        \A R \in Named :
            /\ (call.ctx.http_version = "HTTP_3" /\ ~(R.udp /\ R.socks5))
                  => TheResult = mismatch
            /\ (call.ctx.http_version # "HTTP_3" /\ ~R.tcp)
                  => TheResult = mismatch

\* under HTTP/3, a row with udp but without socks5, named by a filter that
\* sets nothing else, is a mismatch
C3_Witness ==
    /\ Returned("get_proxy") /\ IdentityPath
    /\ call.ctx.http_version = "HTTP_3"
    /\ SetFields(call.filter) = 0
    /\ \E R \in Named : R.udp /\ ~R.socks5 /\ R.tcp
    /\ TheResult = mismatch

(***************************************************************************)
(* C4: query path, protocol-derived constraint. With filter.id unset,      *)
(* every row get_proxy or get_proxy_if returns under HTTP/3 has udp and    *)
(* socks5, and every row returned under another version has tcp.           *)
(***************************************************************************)
C4_QueryProtocol ==
    (ReturnedAny /\ QueryPath /\ TheResult.kind = "Ok") =>
        IF call.ctx.http_version = "HTTP_3"
        THEN ReturnedProxy.udp /\ ReturnedProxy.socks5
        ELSE ReturnedProxy.tcp

\* under HTTP/3 the query returned the row with udp and socks5 of a store
\* whose other row has tcp only
C4_Witness ==
    /\ ReturnedAny /\ QueryPath
    /\ call.ctx.http_version = "HTTP_3"
    /\ TheResult.kind = "Ok"
    /\ \E R \in Stored : R.tcp /\ ~R.udp /\ ~R.socks5

\* the fields of a filter that C5 names
C5Fields == {"pool_id", "country", "city"} \cup FlagFields

(***************************************************************************)
(* C5: query path, explicit constraints. With filter.id unset, every row   *)
(* get_proxy returns has each flag (datacenter, residential, mobile) equal *)
(* to the filter's value where the filter sets it and each of pool_id,     *)
(* country, city matching the filter's value where the filter sets it; and *)
(* fields left unset exclude no row: when the result is NotFound, no       *)
(* stored row meets the protocol requirement and the set fields.           *)
(***************************************************************************)
C5_QueryConstraints ==
    (Returned("get_proxy") /\ QueryPath) =>
        /\ TheResult.kind = "Ok" =>
              Misfits(ReturnedProxy, call.filter) \cap C5Fields = {}
        /\ TheResult = not_found =>
              \A R \in Stored :
                  \/ ~ProtocolMet(R, call.ctx)
                  \/ Misfits(R, call.filter) \cap C5Fields # {}

\* the query set a flag and returned the one row of two that has it
C5_Witness ==
    /\ Returned("get_proxy") /\ QueryPath
    /\ call.filter.mobile = Some(TRUE)
    /\ TheResult.kind = "Ok"
    /\ ReturnedProxy.mobile
    /\ \E R \in Stored : ProtocolMet(R, call.ctx) /\ ~R.mobile

(***************************************************************************)
(* The query path and the carrier. query_from_filter hands pool_id,        *)
(* country, city and the flags of the filter to the query and leaves       *)
(* filter.carrier out, so a filter's carrier excludes no row there. The    *)
(* statements C6 to C10 are given as the claims state them, over every     *)
(* field of the filter; each is followed by what holds of the code: the    *)
(* same statement over the filters that leave carrier unset.               *)
(***************************************************************************)
\* the candidate set of a context and a filter: the rows that meet the
\* protocol requirement and every set field of the filter
CandidateSet(db, ctx, filter) ==
    {R \in db : ProtocolMet(R, ctx) /\ Misfits(R, filter) = {}}
\* the filters of the query path, and those among them without a carrier
QueryFilters == {f \in ProxyFilter : f.id = None}
NoCarrier == pc = "done" /\ call.filter.carrier = None

(***************************************************************************)
(* C6: query path, carrier. With filter.id unset and filter.carrier set,   *)
(* get_proxy never returns a row whose carrier is a concrete value         *)
(* different from the filter's carrier.                                    *)
(***************************************************************************)
C6_CarrierApplied ==
    (Returned("get_proxy") /\ QueryPath /\ TheResult.kind = "Ok") =>
        \A v \in call.filter.carrier :
            ReturnedProxy.carrier = Wildcard \/ ReturnedProxy.carrier = v

(***************************************************************************)
(* C7: wildcard semantics on the query path. A row whose categorical       *)
(* attribute is the wildcard is a candidate for every query value of that  *)
(* attribute (the result is NotFound only if no row meets the protocol     *)
(* requirement and the flags and has, for each categorical field set, the  *)
(* wildcard or the identical string), and a row whose attribute is a       *)
(* concrete value is a candidate only when the query value is the          *)
(* identical string: a row returned for a value it does not carry has the  *)
(* wildcard there.                                                         *)
(***************************************************************************)
C7_WildcardSemantics ==
    (Returned("get_proxy") /\ QueryPath) =>
        /\ TheResult.kind = "Ok" =>
              \A k \in CatFields : \A v \in call.filter[k] :
                  ReturnedProxy[k] # v => ReturnedProxy[k] = Wildcard
        /\ TheResult = not_found =>
              ~\E R \in Stored :
                  /\ ProtocolMet(R, call.ctx)
                  /\ Misfits(R, call.filter) \cap FlagFields = {}
                  /\ \A k \in CatFields : \A v \in call.filter[k] :
                        R[k] = Wildcard \/ R[k] = v

\* C7, as it holds of the code: over the filters that leave carrier unset
C7_WildcardSemantics_NoCarrier == NoCarrier => C7_WildcardSemantics

\* none is starved: from a store with no call in flight, for every context
\* and filter of the query path, get_proxy can return each row of the
\* candidate set
C8_EveryCandidatePossible ==
    pc = "idle" =>
        \A ctx \in RequestContext, filter \in QueryFilters :
            \A R \in CandidateSet(Stored, ctx, filter) :
                ENABLED GetProxyCall(ctx, filter, Ok(R))

\* a row get_proxy has returned on the query path is in the candidate set
C8_OnlyCandidates ==
    (Returned("get_proxy") /\ QueryPath /\ TheResult.kind = "Ok") =>
        ReturnedProxy \in CandidateSet(Stored, call.ctx, call.filter)

(***************************************************************************)
(* C8: coverage of the random pick. On the query path, for a fixed store,  *)
(* context and filter, the rows get_proxy can return are exactly the       *)
(* candidate set: every row satisfying all constraints is a possible       *)
(* outcome (none is starved) and no row violating a constraint is ever an  *)
(* outcome.                                                                *)
(***************************************************************************)
C8_ExactlyCandidates == C8_EveryCandidatePossible /\ C8_OnlyCandidates

\* C8, as it holds of the code: over the filters that leave carrier unset
C8_ExactlyCandidates_NoCarrier ==
    /\ C8_EveryCandidatePossible
    /\ NoCarrier => C8_OnlyCandidates

\* the candidate set of the call, narrowed by its predicate (get_proxy has
\* none: every row passes)
Narrowed ==
    {R \in CandidateSet(Stored, call.ctx, call.filter) :
        predicate(call.pred, R)}

(***************************************************************************)
(* C9: query path failure kind. With filter.id unset, get_proxy and        *)
(* get_proxy_if return NotFound if and only if the candidate set, narrowed *)
(* by the predicate if there is one, is empty, a row otherwise, and never  *)
(* Mismatch.                                                               *)
(***************************************************************************)
C9_QueryFailureKind ==
    (ReturnedAny /\ QueryPath) =>
        /\ TheResult = not_found <=> Narrowed = {}
        /\ TheResult # not_found => TheResult.kind = "Ok"
        /\ TheResult # mismatch

\* C9, as it holds of the code: over the filters that leave carrier unset
C9_QueryFailureKind_NoCarrier == NoCarrier => C9_QueryFailureKind

(***************************************************************************)
(* C10: predicate narrowing on the query path. With filter.id unset, every *)
(* row get_proxy_if returns satisfies the predicate, every set field of    *)
(* the filter and the protocol requirement; and a predicate that rejects   *)
(* every candidate yields NotFound, also when there are candidates.        *)
(***************************************************************************)
C10_PredicateNarrowing ==
    (Returned("get_proxy_if") /\ QueryPath) =>
        /\ TheResult.kind = "Ok" =>
              /\ predicate(call.pred, ReturnedProxy)
              /\ Misfits(ReturnedProxy, call.filter) = {}
              /\ ProtocolMet(ReturnedProxy, call.ctx)
        /\ (\A R \in CandidateSet(Stored, call.ctx, call.filter) :
               ~predicate(call.pred, R))
              => TheResult = not_found

\* C10, as it holds of the code: over the filters that leave carrier unset
C10_PredicateNarrowing_NoCarrier == NoCarrier => C10_PredicateNarrowing

(***************************************************************************)
(* C11: predicate on the identity path. When filter.id names a stored row, *)
(* get_proxy_if returns that row only if the validation (every set field   *)
(* and the protocol requirement) and the predicate both pass; if the       *)
(* validation passes and the predicate rejects the row, the result is      *)
(* Mismatch, not NotFound.                                                 *)
(***************************************************************************)
C11_IdentityPredicate ==
    (Returned("get_proxy_if") /\ IdentityPath) =>
        \A R \in Named :
            /\ TheResult.kind = "Ok" =>
                  /\ TheResult = Ok(R)
                  /\ Misfits(R, call.filter) = {}
                  /\ ProtocolMet(R, call.ctx)
                  /\ predicate(call.pred, R)
            /\ (Misfits(R, call.filter) = {} /\ ProtocolMet(R, call.ctx)
                    /\ ~predicate(call.pred, R))
                  => TheResult = mismatch

\* the row of the id passes the validation of a filter that sets a flag, the
\* predicate rejects it, and get_proxy_if gave Mismatch
C11_Witness ==
    /\ Returned("get_proxy_if") /\ IdentityPath
    /\ call.filter.mobile = Some(TRUE)
    /\ \E R \in Named :
          /\ Misfits(R, call.filter) = {} /\ ProtocolMet(R, call.ctx)
          /\ ~predicate(call.pred, R)
    /\ TheResult = mismatch

\* two rows of the batch share an id
HasDuplicate(batch) ==
    \E i, j \in DOMAIN batch : i # j /\ batch[i].id = batch[j].id

(***************************************************************************)
(* C12: uniqueness at construction. For every batch with two rows of the   *)
(* same id, try_from_rows and try_from_iter fail with an error of kind     *)
(* DuplicateKey, no store is produced, and the error's proxies are the     *)
(* whole batch as it was given, in its order.                              *)
(***************************************************************************)
C12_UniquenessAtConstruction ==
    [][(pc = "new" /\ HasDuplicate(rows)) =>
          /\ pc' = "failed"
          /\ data' = None
          /\ insert_err' = Some([kind |-> "DuplicateKey", proxies |-> rows])]_vars

\* construction failed on a batch of two different rows of one id, and the
\* error carries both
C12_Witness ==
    /\ pc = "failed" /\ data = None
    /\ \E e \in insert_err :
          /\ e.kind = "DuplicateKey"
          /\ Len(e.proxies) = 2
          /\ e.proxies[1].id = e.proxies[2].id
          /\ e.proxies[1] # e.proxies[2]

(***************************************************************************)
(* Concurrent readers. get_proxy and get_proxy_if take &self: callers that *)
(* share one MemoryProxyDB call them side by side. A call is an async fn   *)
(* without an await inside: invoking it makes the future (the arguments    *)
(* are taken), polling it runs the body to its result in one step.         *)
(***************************************************************************)
\* the stores the callers share: those built of a batch of several rows
ReaderBatches == {b \in Batches : Len(b) >= 2 /\ try_from_rows(b).err = None}

\* the calls of a caller: the query path, a stored id and an id never
\* stored, no other field set; HTTP/2 and HTTP/3; get_proxy, and
\* get_proxy_if under the predicate that accepts the row with id 1 only
ReaderFilters ==
    {f \in ProxyFilter :
        /\ f.id \in {None, Some(1), Some(MaxProxies + 1)}
        /\ SetFields(f) = 0}
ReaderCalls ==
    {[op |-> o[1], ctx |-> ctx, filter |-> f, pred |-> o[2]] :
        o \in {<<"get_proxy", Ids>>, <<"get_proxy_if", {1}>>},
        ctx \in {x \in RequestContext : x.http_version \in {"HTTP_2", "HTTP_3"}},
        f \in ReaderFilters}

\* the results a call can give on a store
ResultsOf(db, c) ==
    IF c.op = "get_proxy"
    THEN get_proxy(db, c.ctx, c.filter)
    ELSE get_proxy_if(db, c.ctx, c.filter, c.pred)

\* a database built and shared, no call made
InitReaders ==
    /\ rows = <<>>
    /\ \E b \in ReaderBatches : data = try_from_rows(b).data
    /\ insert_err = None
    /\ pc = "idle"
    /\ call = NoCall
    /\ result = None
    /\ readers = NoReaders
    /\ codec = NoCodec
    /\ retry = NoRetry

\* caller c invokes get_proxy or get_proxy_if: the future holds the arguments
Invoke(c) ==
    /\ readers[c].pc = "idle"
    /\ \E made \in ReaderCalls :
         readers' = [readers EXCEPT ![c] =
                        [pc |-> "called", call |-> made, result |-> None]]
    /\ UNCHANGED <<rows, data, insert_err, pc, call, result, codec, retry>>

\* a read that hands the proxy over for good: the row returned leaves the store
Complete_checkout(c, r) ==
    /\ readers[c].pc = "called"
    /\ r \in ResultsOf(unwrap(data), readers[c].call)
    /\ readers' = [readers EXCEPT ![c].pc = "done", ![c].result = Some(r)]
    /\ data' = Some(unwrap(data) \ r.proxy)
    /\ UNCHANGED <<rows, insert_err, pc, call, result, codec, retry>>

\* the call of caller c runs on the store and gives r
Complete(c, r) ==
    /\ readers[c].pc = "called"
    /\ r \in ResultsOf(unwrap(data), readers[c].call)
    /\ readers' = [readers EXCEPT ![c].pc = "done", ![c].result = Some(r)]
    /\ UNCHANGED <<rows, data, insert_err, pc, call, result, codec, retry>>

\* caller c takes its result and is free to call again
Take(c) ==
    /\ readers[c].pc = "done"
    /\ readers' = [readers EXCEPT ![c] = NoReaders[c]]
    /\ UNCHANGED <<rows, data, insert_err, pc, call, result, codec, retry>>

Invoking == \E c \in Callers : Invoke(c)
Completing ==
    \E c \in Callers : \E r \in Outcomes(unwrap(data)) : Complete(c, r)
Taking == \E c \in Callers : Take(c)

NextReaders == Invoking \/ Completing \/ Taking

SpecReaders == InitReaders /\ [][NextReaders]_vars

(***************************************************************************)
(* C13: read-only store under concurrent readers. After construction, no   *)
(* step of any interleaving of get_proxy and get_proxy_if calls of the     *)
(* callers, succeeding or failing, changes the rows of the store or its    *)
(* len; and the results a call can give are those of its own context,      *)
(* filter and predicate on the store, each of them whatever the other      *)
(* callers are doing: a call that completes gives one of them, and each of *)
(* them is a result the call in flight can complete with.                  *)
(***************************************************************************)
C13_ReadOnlyStore ==
    [][data # None =>
          /\ data' = data
          /\ len(unwrap(data')) = len(unwrap(data))
          /\ \A c \in Callers :
                /\ (readers[c].pc = "called" /\ readers'[c].pc = "done")
                      => unwrap(readers'[c].result)
                            \in ResultsOf(unwrap(data), readers[c].call)
                /\ readers[c].pc = "called"
                      => \A r \in ResultsOf(unwrap(data), readers[c].call) :
                            ENABLED Complete(c, r)]_vars

\* two callers made the same query on one store and were given different
\* rows, both calls done before either result is taken
C13_Witness ==
    /\ \A c \in Callers : readers[c].pc = "done"
    /\ readers["c1"].call = readers["c2"].call
    /\ readers["c1"].call.filter.id = None
    /\ unwrap(readers["c1"].result).kind = "Ok"
    /\ unwrap(readers["c2"].result).kind = "Ok"
    /\ readers["c1"].result # readers["c2"].result
    /\ len(unwrap(data)) = 2

(***************************************************************************)
(* ProxyCredentials, its Display and its FromStr. A string is the sequence *)
(* of its bytes (UTF-8), so that base64 and the UTF-8 test work on what    *)
(* they work on in the program.                                            *)
(***************************************************************************)
\* the longest username, password or token, in characters
MaxChars == 2
\* the longest text after the first space of a string handed to the parser
MaxRemainder == 4

\* ' ', ':' and the padding byte '=' of base64
SP == 32
COLON == 58
PAD_BYTE == 61

\* "Basic" and "Bearer"
BasicScheme == <<66, 97, 115, 105, 99>>
BearerScheme == <<66, 101, 97, 114, 101, 114>>

\* the characters of the model's usernames, passwords and tokens: "u", ":",
\* " " and the two-byte "é"
Chars == {<<117>>, <<COLON>>, <<SP>>, <<195, 169>>}

RECURSIVE Texts(_)
\* the strings of at most n characters
Texts(n) ==
    IF n = 0 THEN {<<>>}
    ELSE Texts(n - 1) \cup {t \o ch : t \in Texts(n - 1), ch \in Chars}

\* ProxyCredentials::Basic { username, password } and ::Bearer(token)
Basic(username, password) ==
    [kind |-> "Basic", username |-> username, password |-> password]
Bearer(token) == [kind |-> "Bearer", token |-> token]
ProxyCredentials ==
    {Basic(u, p) : u \in Texts(MaxChars), p \in Opt(Texts(MaxChars))}
        \cup {Bearer(t) : t \in Texts(MaxChars)}

\* the results of FromStr: Ok(credentials) or Err(InvalidProxyCredentialsString)
Parsed(c) == [kind |-> "Ok", credentials |-> Some(c)]
InvalidProxyCredentialsString ==
    [kind |-> "InvalidProxyCredentialsString", credentials |-> None]

\* the base64 alphabet of the STANDARD engine: the symbol of a 6-bit value,
\* and the value of a symbol (None for a byte outside the alphabet)
Symbol(v) ==
    IF v < 26 THEN 65 + v
    ELSE IF v < 52 THEN 97 + (v - 26)
    ELSE IF v < 62 THEN 48 + (v - 52)
    ELSE IF v = 62 THEN 43 ELSE 47
Sextet(b) ==
    IF b \in 65..90 THEN Some(b - 65)
    ELSE IF b \in 97..122 THEN Some(b - 97 + 26)
    ELSE IF b \in 48..57 THEN Some(b - 48 + 52)
    ELSE IF b = 43 THEN Some(62)
    ELSE IF b = 47 THEN Some(63)
    ELSE None

RECURSIVE encode(_)
\* BASE64.encode: three bytes to four symbols, the last group padded
encode(bytes) ==
    IF Len(bytes) = 0 THEN <<>>
    ELSE IF Len(bytes) = 1
    THEN <<Symbol(bytes[1] \div 4), Symbol((bytes[1] % 4) * 16),
           PAD_BYTE, PAD_BYTE>>
    ELSE IF Len(bytes) = 2
    THEN <<Symbol(bytes[1] \div 4),
           Symbol((bytes[1] % 4) * 16 + bytes[2] \div 16),
           Symbol((bytes[2] % 16) * 4), PAD_BYTE>>
    ELSE <<Symbol(bytes[1] \div 4),
           Symbol((bytes[1] % 4) * 16 + bytes[2] \div 16),
           Symbol((bytes[2] % 16) * 4 + bytes[3] \div 64),
           Symbol(bytes[3] % 64)>>
         \o encode(SubSeq(bytes, 4, Len(bytes)))

RECURSIVE decode(_)
\* BASE64.decode: Some(the bytes), or None for a symbol outside the
\* alphabet, a length that is no multiple of four, padding anywhere but at
\* the end, or a last symbol with bits that no byte takes
decode(encoded) ==
    IF Len(encoded) = 0 THEN Some(<<>>)
    ELSE IF Len(encoded) < 4 THEN None
    ELSE
    LET q == SubSeq(encoded, 1, 4)
        rest == SubSeq(encoded, 5, Len(encoded))
        v == [i \in 1..4 |-> Sextet(q[i])]
    IN  IF v[1] = None \/ v[2] = None THEN None
        ELSE IF q[3] = PAD_BYTE
        THEN IF q[4] = PAD_BYTE /\ rest = <<>> /\ unwrap(v[2]) % 16 = 0
             THEN Some(<<unwrap(v[1]) * 4 + unwrap(v[2]) \div 16>>)
             ELSE None
        ELSE IF v[3] = None THEN None
        ELSE IF q[4] = PAD_BYTE
        THEN IF rest = <<>> /\ unwrap(v[3]) % 4 = 0
             THEN Some(<<unwrap(v[1]) * 4 + unwrap(v[2]) \div 16,
                         (unwrap(v[2]) % 16) * 16 + unwrap(v[3]) \div 4>>)
             ELSE None
        ELSE IF v[4] = None THEN None
        ELSE LET tail == decode(rest)
             IN  IF tail = None THEN None
                 ELSE Some(<<unwrap(v[1]) * 4 + unwrap(v[2]) \div 16,
                             (unwrap(v[2]) % 16) * 16 + unwrap(v[3]) \div 4,
                             (unwrap(v[3]) % 4) * 64 + unwrap(v[4])>>
                           \o unwrap(tail))

\* a continuation byte of UTF-8
Continuation(bytes, i) == i <= Len(bytes) /\ bytes[i] \in 128..191

RECURSIVE Utf8(_)
\* the bytes are well-formed UTF-8
Utf8(bytes) ==
    IF Len(bytes) = 0 THEN TRUE
    ELSE LET b == bytes[1]
             after(n) == Utf8(SubSeq(bytes, n + 1, Len(bytes)))
         IN  IF b < 128 THEN after(1)
             ELSE IF b \in 194..223
             THEN Continuation(bytes, 2) /\ after(2)
             ELSE IF b \in 224..239
             THEN /\ Continuation(bytes, 2) /\ Continuation(bytes, 3)
                  /\ b = 224 => bytes[2] >= 160
                  /\ b = 237 => bytes[2] <= 159
                  /\ after(3)
             ELSE IF b \in 240..244
             THEN /\ Continuation(bytes, 2) /\ Continuation(bytes, 3)
                  /\ Continuation(bytes, 4)
                  /\ b = 240 => bytes[2] >= 144
                  /\ b = 244 => bytes[2] <= 143
                  /\ after(4)
             ELSE FALSE

\* String::from_utf8
from_utf8(bytes) == IF Utf8(bytes) THEN Some(bytes) ELSE None

\* str::splitn(2, pat): the text before the first pat and the text after it,
\* or the whole text alone when it holds no pat
splitn(s, pat) ==
    LET at == {i \in DOMAIN s : s[i] = pat}
    IN  IF at = {} THEN <<s>>
        ELSE LET i == CHOOSE i \in at : \A j \in at : i <= j
             IN  <<SubSeq(s, 1, i - 1), SubSeq(s, i + 1, Len(s))>>

\* Display writing "username:" for credentials without a password
to_string_colon_always(c) ==
    IF c.kind = "Basic"
    THEN BasicScheme \o <<SP>>
            \o encode(c.username \o <<COLON>>
                        \o (IF c.password # None THEN unwrap(c.password)
                            ELSE <<>>))
    ELSE BearerScheme \o <<SP>> \o c.token

\* impl Display for ProxyCredentials
to_string(c) ==
    IF c.kind = "Basic"
    THEN IF c.password # None
         THEN BasicScheme \o <<SP>>
                \o encode(c.username \o <<COLON>> \o unwrap(c.password))
         ELSE BasicScheme \o <<SP>> \o encode(c.username)
    ELSE BearerScheme \o <<SP>> \o c.token

\* FromStr taking the decoded bytes as they are, well-formed UTF-8 or not
from_str_unchecked_utf8(s) ==
    LET parts == splitn(s, SP)
    IN  IF parts[1] = BasicScheme
        THEN IF Len(parts) < 2 THEN InvalidProxyCredentialsString
             ELSE LET decoded == decode(parts[2])
                  IN  IF decoded = None THEN InvalidProxyCredentialsString
                      ELSE LET up == splitn(unwrap(decoded), COLON)
                           IN  Parsed(Basic(up[1], IF Len(up) = 2
                                                   THEN Some(up[2])
                                                   ELSE None))
        ELSE IF parts[1] = BearerScheme
        THEN IF Len(parts) < 2 THEN InvalidProxyCredentialsString
             ELSE Parsed(Bearer(parts[2]))
        ELSE InvalidProxyCredentialsString

\* impl FromStr for ProxyCredentials
from_str(s) ==
    LET parts == splitn(s, SP)
    IN  IF parts[1] = BasicScheme
        THEN IF Len(parts) < 2 THEN InvalidProxyCredentialsString
             ELSE LET bytes == decode(parts[2])
                  IN  IF bytes = None THEN InvalidProxyCredentialsString
                      ELSE LET decoded == from_utf8(unwrap(bytes))
                           IN  IF decoded = None
                               THEN InvalidProxyCredentialsString
                               ELSE LET up == splitn(unwrap(decoded), COLON)
                                    IN  Parsed(Basic(up[1],
                                                     IF Len(up) = 2
                                                     THEN Some(up[2])
                                                     ELSE None))
        ELSE IF parts[1] = BearerScheme
        THEN IF Len(parts) < 2 THEN InvalidProxyCredentialsString
             ELSE Parsed(Bearer(parts[2]))
        ELSE InvalidProxyCredentialsString

\* the strings handed to the parser as they come: nothing, "Basic", "Bearer",
\* "basic", "Basi" or "Invalid", alone or followed by a space and a text of
\* the bytes "d", "Q", "T", "o", "=", "/", "w" and " "
Schemes ==
    {<<>>, BasicScheme, BearerScheme, <<98, 97, 115, 105, 99>>,
     <<66, 97, 115, 105>>, <<73, 110, 118, 97, 108, 105, 100>>}
RemainderBytes == {100, 81, 84, 111, PAD_BYTE, 47, 119, SP}
Remainders == UNION {[1..n -> RemainderBytes] : n \in 0..MaxRemainder}
Inputs ==
    {scheme \o tail : scheme \in Schemes,
                      tail \in {<<>>} \cup {<<SP>> \o r : r \in Remainders}}

\* credentials about to be written, or a string about to be parsed
InitCodec ==
    /\ rows = <<>>
    /\ data = None
    /\ insert_err = None
    /\ pc = "new"
    /\ call = NoCall
    /\ result = None
    /\ readers = NoReaders
    /\ retry = NoRetry
    /\ codec \in {[pc |-> "made", credentials |-> Some(c), text |-> <<>>,
                   parsed |-> None] : c \in ProxyCredentials}
                 \cup {[pc |-> "written", credentials |-> None, text |-> s,
                        parsed |-> None] : s \in Inputs}

\* credentials.to_string()
Display ==
    /\ codec.pc = "made"
    /\ codec' = [codec EXCEPT !.pc = "written",
                              !.text = to_string(unwrap(codec.credentials))]
    /\ UNCHANGED <<rows, data, insert_err, pc, call, result, readers, retry>>

\* text.parse::<ProxyCredentials>()
FromStr ==
    /\ codec.pc = "written"
    /\ codec' = [codec EXCEPT !.pc = "parsed",
                              !.parsed = Some(from_str(codec.text))]
    /\ UNCHANGED <<rows, data, insert_err, pc, call, result, readers, retry>>

NextCodec == Display \/ FromStr

SpecCodec == InitCodec /\ [][NextCodec]_vars

\* the byte is no byte of the text
Without(text, byte) == \A i \in DOMAIN text : text[i] # byte

\* the credentials that C14 is about: Basic with no colon in the username
\* nor in the password, if there is one, and every Bearer token
ColonFree(c) ==
    c.kind = "Basic" =>
        /\ Without(c.username, COLON)
        /\ \A p \in c.password : Without(p, COLON)

(***************************************************************************)
(* C14: credential round trip. Parsing the string Display writes gives     *)
(* back the credentials, for every Basic { username, password } whose      *)
(* username and password hold no colon (password present or absent) and    *)
(* for every Bearer token: parse(to_string(c)) = Ok(c).                    *)
(***************************************************************************)
C14_RoundTrip ==
    (codec.pc = "parsed" /\ codec.credentials # None) =>
        \A c \in codec.credentials :
            ColonFree(c) => unwrap(codec.parsed) = Parsed(c)

\* Basic credentials with a space in the username and no password went
\* through Display and FromStr
C14_Witness ==
    /\ codec.pc = "parsed"
    /\ codec.credentials = Some(Basic(<<117, SP>>, None))
    /\ codec.text = BasicScheme \o <<SP, 100, 83, 65, PAD_BYTE>>
    /\ codec.parsed = Some(Parsed(Basic(<<117, SP>>, None)))

\* the string that was parsed and what the parser gave
TheText == codec.text
TheParse == unwrap(codec.parsed)
\* the text before the first space (the whole text when it has no space),
\* whether there is a space, and the text after the first space
BeforeSpace(s) ==
    IF Without(s, SP) THEN s
    ELSE SubSeq(s, 1, (CHOOSE i \in DOMAIN s :
                          s[i] = SP /\ Without(SubSeq(s, 1, i - 1), SP)) - 1)
HasSpace(s) == ~Without(s, SP)
AfterSpace(s) == SubSeq(s, Len(BeforeSpace(s)) + 2, Len(s))
\* the text is valid base64 of UTF-8 text
Base64OfText(s) == \E bytes \in decode(s) : Utf8(bytes)

C15_EmptyRemainder ==
    (codec.pc = "parsed" /\ HasSpace(TheText) /\ AfterSpace(TheText) = <<>>) =>
        /\ BeforeSpace(TheText) = BearerScheme
              => TheParse = Parsed(Bearer(<<>>))
        /\ BeforeSpace(TheText) = BasicScheme
              => TheParse = Parsed(Basic(<<>>, None))

\* the filter of the call, naming the row the call returned
SameFilterById == [call.filter EXCEPT !.id = Some(ReturnedProxy.id)]

(***************************************************************************)
(* C16: agreement of the two paths. For every store, context and filter    *)
(* with id unset: when the query path of get_proxy returns a row R,        *)
(* get_proxy with the same context and the same filter with id set to R's  *)
(* id returns R and not Mismatch. The query path selects no row that the   *)
(* validation of the identity path rejects for the same constraints.       *)
(***************************************************************************)
C16_PathsAgree ==
    (Returned("get_proxy") /\ QueryPath /\ TheResult.kind = "Ok") =>
        get_proxy(Stored, call.ctx, SameFilterById) = {Ok(ReturnedProxy)}

\* C16, as it holds of the code: over the filters that leave carrier unset
C16_PathsAgree_NoCarrier == NoCarrier => C16_PathsAgree

(***************************************************************************)
(* RetryBody (src/http/layer/retry/body.rs): a body of at most one frame.  *)
(***************************************************************************)
\* the longest Bytes a RetryBody is made of, and the most polls of one body
MaxBytes == 3
MaxPolls == 3

\* Bytes: the payloads of the model, the empty one included
Payloads == UNION {[1..n -> {104, 105}] : n \in 0..MaxBytes}

\* RetryBody::new
new(bytes) == [bytes |-> Some(bytes)]

\* what poll_frame is Ready with: Some(Ok(Frame::data(bytes))), or None at
\* the end of the stream (Some(Err(..)) is of the type and never built)
DataFrame(bytes) == [kind |-> "Ok", frame |-> "data", data |-> bytes]

\* poll_frame handing out the bytes and keeping them
poll_frame_keeping(body) ==
    [ready |-> {DataFrame(b) : b \in body.bytes},
     body |-> body]

\* Body::poll_frame: self.bytes.take().map(|bytes| Ok(Frame::data(bytes)));
\* the value it is Ready with, and the body it leaves
poll_frame(body) ==
    [ready |-> {DataFrame(b) : b \in body.bytes},
     body |-> [body EXCEPT !.bytes = None]]

\* RetryBody::into_bytes
into_bytes(body) == body.bytes

\* a RetryBody fresh from new(bytes): nothing polled, not yet consumed
InitRetry ==
    /\ rows = <<>>
    /\ data = None
    /\ insert_err = None
    /\ pc = "new"
    /\ call = NoCall
    /\ result = None
    /\ readers = NoReaders
    /\ codec = NoCodec
    /\ retry \in {[pc |-> "body", given |-> b, body |-> new(b),
                   polls |-> <<>>, into |-> None] : b \in Payloads}

\* the body is polled for its next frame
PollFrame ==
    /\ retry.pc = "body"
    /\ Len(retry.polls) < MaxPolls
    /\ LET polled == poll_frame(retry.body)
       IN  retry' = [retry EXCEPT !.body = polled.body,
                                  !.polls = Append(@, polled.ready)]
    /\ UNCHANGED <<rows, data, insert_err, pc, call, result, readers, codec>>

\* the body is consumed for its bytes
IntoBytes ==
    /\ retry.pc = "body"
    /\ retry' = [retry EXCEPT !.pc = "consumed",
                              !.into = Some(into_bytes(retry.body))]
    /\ UNCHANGED <<rows, data, insert_err, pc, call, result, readers, codec>>

NextRetry == PollFrame \/ IntoBytes

SpecRetry == InitRetry /\ [][NextRetry]_vars

\* the polls that were given a frame
Delivered == {i \in DOMAIN retry.polls : retry.polls[i] # None}

(***************************************************************************)
(* C17: one-shot retry body. For a RetryBody made of some bytes, the first *)
(* poll_frame gives those bytes as one data frame and every later          *)
(* poll_frame gives the end of the stream (no frame): over any sequence of *)
(* polls the bytes are delivered at most once and no poll gives an error;  *)
(* into_bytes gives the bytes only if no poll has taken them.              *)
(***************************************************************************)
C17_OneShot ==
    retry.pc # "none" =>
        /\ \A i \in DOMAIN retry.polls :
              /\ i = 1 => retry.polls[i] = Some(DataFrame(retry.given))
              /\ i > 1 => retry.polls[i] = None
              /\ \A r \in retry.polls[i] : r.kind = "Ok"
        /\ Cardinality(Delivered) <= 1
        /\ \A got \in retry.into :
              /\ got # None => (got = Some(retry.given) /\ retry.polls = <<>>)
              /\ retry.polls # <<>> => got = None

\* a body of two bytes was polled three times and then consumed: a frame,
\* twice the end of the stream, and into_bytes without bytes
C17_Witness ==
    /\ retry.pc = "consumed"
    /\ retry.given = <<104, 105>>
    /\ retry.polls = <<Some(DataFrame(<<104, 105>>)), None, None>>
    /\ retry.into = Some(None)

====
